---- MODULE Spec2Model ----
(***************************************************************************)
(* Model of scripts/main_automation.py (EKSAutomationPipeline).            *)
(*                                                                         *)
(* Texts are sequences of tokens.  For the fence extractors a token is a   *)
(* piece of the response string:                                           *)
(*     "F"   the three backticks ```                                       *)
(*     "tag" a language tag of the extractor at hand (hcl for              *)
(*           _extract_terraform_code, yaml for _extract_yaml_content,      *)
(*           dockerfile for _extract_dockerfile_content, bash for          *)
(*           _extract_script_content)                                      *)
(*     "nl"  the newline character                                         *)
(*     "a"   the letter a (any character that is neither white space nor   *)
(*           part of a fence or of a tag)                                  *)
(* The string a text stands for is the concatenation of its tokens.        *)
(*                                                                         *)
(* For _parse_k8s_manifests a token is a whole line of the response, and   *)
(* the string a text stands for is its lines joined by newlines:           *)
(*     "sep" ---                  "bl"  the empty line                     *)
(*     "kD"  kind: Deployment     "kS"  kind: Service                      *)
(*     "kI"  kind: Ingress        "ks"  kind: service                      *)
(*     "kN"  kind: 42             "m"   app: Service                       *)
(*     "li"  - item               "lk"  - kind                             *)
(*     "lD"  - Deployment         "sc"  Deployment of kind                 *)
(* and, in the responses of a run only, "kC" kind: ConfigMap.              *)
(***************************************************************************)
EXTENDS Integers, Sequences, FiniteSets, TLC

VARIABLES
  mode,      \* what runs: a fence extractor, _parse_k8s_manifests, the script
  pc,        \* where it is
  variant,   \* the fence extractor at hand
  response,  \* the response text given to the function
  result,    \* the value the function returned
  again,     \* the value the extractor returned for its own output
  apiKey,    \* which of GEMINI_API_KEY and GOOGLE_API_KEY are set
  dirs,      \* the directories that exist
  files,     \* the artifact files that exist, with their content
  before,    \* the artifact files as they were when the run started
  calls,     \* the generation calls issued so far, in order
  responses, \* the response each artifact-generation call returned
  failed,    \* the generation call that failed
  pending,   \* the artifacts held in local variables, generated and not yet written
  log,       \* the error messages logged
  exit       \* the outcome of the process

textVars == <<variant, response, result, again>>

runVars ==
  <<apiKey, dirs, files, before, calls, responses, failed, pending, log, exit>>

vars == <<mode, pc, textVars, runVars>>

\* A value that is no text, no key and no mapping.
None == "None"

\* The run's variables while a pure function is checked on its own.
NoRun ==
  /\ apiKey = {} /\ dirs = {} /\ files = <<>> /\ before = <<>>
  /\ calls = <<>> /\ responses = <<>> /\ failed = None /\ pending = <<>>
  /\ log = <<>>
  /\ exit = "running"

\* Longest response text given to a fence extractor, in tokens.
MaxLen == 7

Alphabet == {"F", "tag", "nl", "a"}

\* Characters str.strip() removes.
Whitespace == {"nl"}

\* The texts of n tokens.
Texts(n) == [1..n -> Alphabet]

Variants == {"terraform", "yaml", "dockerfile", "script"}

Min(S) == CHOOSE x \in S : \A y \in S : x <= y

Max(S) == CHOOSE x \in S : \A y \in S : x >= y

\* str.strip(): the text without its leading and trailing white space.
Strip(s) ==
  LET keep == {i \in 1..Len(s) : s[i] \notin Whitespace}
  IN  IF keep = {} THEN <<>> ELSE SubSeq(s, Min(keep), Max(keep))

\* Faulty variant: the terraform list, inline pattern included, copied to every
\* extractor.
code_patterns_all_inline(v) == <<"tagged", "generic", "inline">>

\* The pattern lists of the four extractors, in the order the code tries them:
\*   "tagged"   ```(?:tag1|tag2)?\n(.*?)\n```
\*   "generic"  ```\n(.*?)\n```
\*   "inline"   ```(.*?)```
code_patterns(v) ==
  IF v = "terraform" THEN <<"tagged", "generic", "inline">>
                     ELSE <<"tagged", "generic">>

\* Where the group starts when pattern pat's opening part matches r at i
\* (0: it does not match there).  The optional tag is tried first; without
\* it the next character has to be the newline.
OpenEnd(pat, r, i) ==
  IF i > Len(r) \/ r[i] # "F" THEN 0
  ELSE IF pat = "inline" THEN i + 1
  ELSE IF pat = "tagged" /\ i + 2 <= Len(r) /\ r[i+1] = "tag" /\ r[i+2] = "nl"
       THEN i + 3
  ELSE IF i + 1 <= Len(r) /\ r[i+1] = "nl" THEN i + 2
  ELSE 0

\* Pattern pat's closing part matches r at j.
CloseAt(pat, r, j) ==
  IF pat = "inline" THEN j <= Len(r) /\ r[j] = "F"
  ELSE j + 1 <= Len(r) /\ r[j] = "nl" /\ r[j+1] = "F"

\* The closing part's length.
CloseLen(pat) == IF pat = "inline" THEN 1 ELSE 2

\* The positions at which the closing part can follow a group starting at g.
Closings(pat, r, g) == {j \in g..Len(r) : CloseAt(pat, r, j)}

\* The pattern matches r starting at i: (.*?) is lazy and DOTALL, so any
\* later closing part completes the match.
MatchAt(pat, r, i) ==
  OpenEnd(pat, r, i) # 0 /\ Closings(pat, r, OpenEnd(pat, r, i)) # {}

\* Faulty variant: the group greedy, (.*) for (.*?): the match runs to the last
\* closing part.
RECURSIVE FindAllGreedy(_, _, _)
FindAllGreedy(pat, r, pos) ==
  LET starts == {i \in pos..Len(r) : MatchAt(pat, r, i)}
  IN  IF starts = {} THEN <<>>
      ELSE LET i == Min(starts)
               g == OpenEnd(pat, r, i)
               j == Max(Closings(pat, r, g))
           IN  <<SubSeq(r, g, j - 1)>> \o FindAllGreedy(pat, r, j + CloseLen(pat))

\* re.findall(pattern, response, re.DOTALL): the groups of the successive
\* non-overlapping matches, leftmost first, each with the shortest group.
RECURSIVE FindAllFrom(_, _, _)
FindAllFrom(pat, r, pos) ==
  LET starts == {i \in pos..Len(r) : MatchAt(pat, r, i)}
  IN  IF starts = {} THEN <<>>
      ELSE LET i == Min(starts)
               g == OpenEnd(pat, r, i)
               j == Min(Closings(pat, r, g))
           IN  <<SubSeq(r, g, j - 1)>> \o FindAllFrom(pat, r, j + CloseLen(pat))

re_findall(pat, r) == FindAllFrom(pat, r, 1)

\* Faulty variant: with no match the response is returned as it is, not stripped.
RECURSIVE ExtractFromAsIs(_, _, _)
ExtractFromAsIs(patterns, k, r) ==
  IF k > Len(patterns) THEN r
  ELSE LET matches == re_findall(patterns[k], r)
       IN  IF matches # <<>> THEN Strip(matches[1])
           ELSE ExtractFromAsIs(patterns, k + 1, r)

\* The loop shared by the four extractors: the first pattern with a match
\* gives matches[0].strip(); with no match the whole response, stripped.
RECURSIVE ExtractFrom(_, _, _)
ExtractFrom(patterns, k, r) ==
  IF k > Len(patterns) THEN Strip(r)
  ELSE LET matches == re_findall(patterns[k], r)
       IN  IF matches # <<>> THEN Strip(matches[1])
           ELSE ExtractFrom(patterns, k + 1, r)

ExtractFenced(v, r) == ExtractFrom(code_patterns(v), 1, r)

_extract_terraform_code(r) == ExtractFenced("terraform", r)

_extract_yaml_content(r) == ExtractFenced("yaml", r)

_extract_dockerfile_content(r) == ExtractFenced("dockerfile", r)

_extract_script_content(r) == ExtractFenced("script", r)

Extractor(v, r) ==
  CASE v = "terraform"  -> _extract_terraform_code(r)
    [] v = "yaml"       -> _extract_yaml_content(r)
    [] v = "dockerfile" -> _extract_dockerfile_content(r)
    [] v = "script"     -> _extract_script_content(r)

----------------------------------------------------------------------------
\* The fence extractors as a state machine: one response, one extractor,
\* the extractor applied to the response and then to its own output.

InitExtract ==
  /\ mode = "extract"
  /\ variant \in Variants
  /\ \E n \in 0..MaxLen : response \in Texts(n)
  /\ result = <<>>
  /\ again = <<>>
  /\ pc = "start"
  /\ NoRun

Extract ==
  /\ mode = "extract"
  /\ pc = "start"
  /\ result' = Extractor(variant, response)
  /\ pc' = "extracted"
  /\ UNCHANGED <<mode, variant, response, again, runVars>>

Reextract ==
  /\ mode = "extract"
  /\ pc = "extracted"
  /\ again' = Extractor(variant, result)
  /\ pc' = "reextracted"
  /\ UNCHANGED <<mode, variant, response, result, runVars>>

NextExtract == Extract \/ Reextract

SpecExtract == InitExtract /\ [][NextExtract]_vars

----------------------------------------------------------------------------
\* _parse_k8s_manifests.  A response is a sequence of lines.

\* Longest response given to _parse_k8s_manifests, in lines.
MaxLines == 5

\* Lines that are an entry "key: value" of a block mapping at column 0.
MapLines == {"kD", "kS", "kI", "ks", "kN", "m", "kC"}

\* Lines that are an entry "- value" of a block sequence at column 0.
ListLines == {"li", "lk", "lD"}

\* Lines that are plain text: neither an entry of a mapping nor of a
\* sequence.
ScalarLines == {"sc"}

\* The lines of the responses given to _parse_k8s_manifests on its own.
Lines == {"sep", "bl"} \cup (MapLines \ {"kC"}) \cup {"li"}

\* The lines of the responses whose documents are also lists holding the
\* item kind and scalars.
DocLines == {"sep", "bl", "kD", "kN", "m"} \cup {"lk", "lD"} \cup ScalarLines

\* The responses of n lines.
Responses(n) == [1..n -> Lines]

\* A YAML value: a string, an integer, or no value at all.
Str(s) == [t |-> "str", v |-> s]

IntVal == [t |-> "int", v |-> "42"]

NoValue == [t |-> "none", v |-> None]

\* The value of the key kind a mapping line gives (NoValue: another key).
KindOf(line) ==
  CASE line = "kD" -> Str("Deployment")
    [] line = "kS" -> Str("Service")
    [] line = "kI" -> Str("Ingress")
    [] line = "ks" -> Str("service")
    [] line = "kC" -> Str("ConfigMap")
    [] line = "kN" -> IntVal
    [] OTHER       -> NoValue

\* The item a sequence line gives.
ItemOf(line) ==
  CASE line = "lk" -> "kind" [] line = "lD" -> "Deployment" [] OTHER -> "item"

\* The line has the letters kind in it.
HasKind(line) == line \in (MapLines \ {"m"}) \cup {"lk", "sc"}

\* The literal markers a line contains ('Service' is in kind: Service and in
\* app: Service, not in kind: service: the search is case sensitive).
MarkersOf(line) ==
  CASE line = "kD" -> {"Deployment"}
    [] line = "lD" -> {"Deployment"}
    [] line = "sc" -> {"Deployment"}
    [] line = "kS" -> {"Service"}
    [] line = "m"  -> {"Service"}
    [] line = "kI" -> {"Ingress"}
    [] OTHER       -> {}

\* 'marker' in doc
Contains(doc, marker) == \E i \in 1..Len(doc) : marker \in MarkersOf(doc[i])

\* Faulty variant: the kind is used as the key without .lower().
LowerNone(s) == s

\* str.lower() of the kind names of the alphabet.
Lower(s) ==
  CASE s = "Deployment" -> "deployment"
    [] s = "Service"    -> "service"
    [] s = "service"    -> "service"
    [] s = "Ingress"    -> "ingress"
    [] s = "ConfigMap"  -> "configmap"

\* response.split('---'): the pieces between the separators, from position
\* pos on; a response with n separators has n + 1 pieces.
RECURSIVE SplitFrom(_, _)
SplitFrom(r, pos) ==
  LET seps == {i \in pos..Len(r) : r[i] = "sep"}
  IN  IF seps = {} THEN <<SubSeq(r, pos, Len(r))>>
      ELSE <<SubSeq(r, pos, Min(seps) - 1)>> \o SplitFrom(r, Min(seps) + 1)

Split(r) == SplitFrom(r, 1)

\* doc.strip() on a sequence of lines: the newlines and empty lines at both
\* ends go.
StripLines(doc) ==
  LET keep == {i \in 1..Len(doc) : doc[i] # "bl"}
  IN  IF keep = {} THEN <<>> ELSE SubSeq(doc, Min(keep), Max(keep))

\* yaml.safe_load(doc) of a doc with no white space around it: None, a
\* dict (with the value of its last kind entry: a key given twice keeps the
\* later value), a list (with its items), a str, or a YAMLError.
\*   Entries of a block mapping and of a block sequence do not mix, and plain
\*   text cannot follow either of them.  Plain text that starts the doc runs
\*   on over the lines that follow, "- " included, as one scalar; a
\*   "key: value" line after it is an error.
safe_load(doc) ==
  LET body  == {i \in 1..Len(doc) : doc[i] # "bl"}
      kinds == {i \in body : KindOf(doc[i]) # NoValue}
  IN  IF doc = <<>> THEN [type |-> "none", kind |-> NoValue, items |-> {}]
      ELSE IF \A i \in body : doc[i] \in MapLines
        THEN [type |-> "dict",
              kind |-> IF kinds = {} THEN NoValue ELSE KindOf(doc[Max(kinds)]),
              items |-> {}]
      ELSE IF \A i \in body : doc[i] \in ListLines
        THEN [type |-> "list", kind |-> NoValue,
              items |-> {ItemOf(doc[i]) : i \in body}]
      ELSE IF doc[1] \in ScalarLines
                /\ \A i \in body : doc[i] \in ScalarLines \cup ListLines
        THEN [type |-> "str", kind |-> NoValue, items |-> {}]
      ELSE [type |-> "error", kind |-> NoValue, items |-> {}]

\* The try block, lines 356-359: the key the doc is stored under (None: it
\* is not stored), or the exception raised.
\*   'kind' in yaml_doc is a key test for a dict, an item test for a list
\*   and a substring test for a str;
\*   yaml_doc['kind'] of a list or a str raises TypeError;
\*   .lower() on a kind that is no str raises AttributeError.
TryBody(doc) ==
  LET y == safe_load(doc)
  IN  CASE y.type = "error" -> [raised |-> "YAMLError", key |-> None]
        [] y.type = "none"  -> [raised |-> None, key |-> None]
        [] y.type = "list"  ->
             IF "kind" \in y.items THEN [raised |-> "TypeError", key |-> None]
             ELSE [raised |-> None, key |-> None]
        [] y.type = "str"   ->
             IF \E i \in 1..Len(doc) : HasKind(doc[i])
               THEN [raised |-> "TypeError", key |-> None]
             ELSE [raised |-> None, key |-> None]
        [] y.type = "dict"  ->
             IF y.kind = NoValue THEN [raised |-> None, key |-> None]
             ELSE IF y.kind.t # "str" THEN [raised |-> "AttributeError", key |-> None]
             ELSE [raised |-> None, key |-> Lower(y.kind.v)]

\* Faulty variant: "except yaml.YAMLError:" for the bare "except:".
CaughtYamlOnly(exc) == exc = "YAMLError"

\* The bare "except:" of line 360 catches every exception.
Caught(exc) == TRUE

\* Faulty variant: a final else that stores the doc under a generic name.
FallbackKeyGeneric(doc) ==
  IF Contains(doc, "Deployment") THEN "deployment"
  ELSE IF Contains(doc, "Service") THEN "service"
  ELSE IF Contains(doc, "Ingress") THEN "ingress"
  ELSE "manifest"

\* The handler, lines 361-367: the key chosen by the first marker found.
FallbackKey(doc) ==
  IF Contains(doc, "Deployment") THEN "deployment"
  ELSE IF Contains(doc, "Service") THEN "service"
  ELSE IF Contains(doc, "Ingress") THEN "ingress"
  ELSE None

\* A dict as the sequence of its items in insertion order.
Keys(d) == {d[i].key : i \in 1..Len(d)}

Get(d, k) == d[CHOOSE i \in 1..Len(d) : d[i].key = k].val

\* Faulty variant: manifests.setdefault(k, v), the first value of a key is kept.
PutKeepFirst(d, k, v) ==
  IF k \in Keys(d) THEN d ELSE Append(d, [key |-> k, val |-> v])

\* manifests[k] = v: a new key is appended, an old key keeps its place and
\* takes the new value.
Put(d, k, v) ==
  IF k \in Keys(d)
    THEN [i \in 1..Len(d) |-> IF d[i].key = k THEN [key |-> k, val |-> v] ELSE d[i]]
    ELSE Append(d, [key |-> k, val |-> v])

\* The loop of lines 349-367 from doc number i on: the mapping returned, or
\* the exception that leaves the function.
Returned(manifests) == [raised |-> None, manifests |-> manifests]

Raised(exc) == [raised |-> exc, manifests |-> <<>>]

\* Faulty variant: the marker search runs whenever no kind was recovered,
\* not only in the exception handler.
ResolvedKeyNoKindFallback(doc) ==
  LET t == TryBody(doc)
  IN  IF t.key = None THEN FallbackKey(doc) ELSE t.key

\* The key a doc ends up under (None: it is not stored), lines 354-367.
ResolvedKey(doc) ==
  LET t == TryBody(doc)
  IN  IF t.raised # None THEN FallbackKey(doc) ELSE t.key

RECURSIVE ParseDocs(_, _, _)
ParseDocs(docs, i, manifests) ==
  IF i > Len(docs) THEN Returned(manifests)
  ELSE LET doc == StripLines(docs[i])
           t   == TryBody(doc)
           k   == ResolvedKey(doc)
       IN  IF doc = <<>> THEN ParseDocs(docs, i + 1, manifests)
           ELSE IF t.raised # None /\ ~Caught(t.raised) THEN Raised(t.raised)
           ELSE IF k = None THEN ParseDocs(docs, i + 1, manifests)
           ELSE ParseDocs(docs, i + 1, Put(manifests, k, doc))

_parse_k8s_manifests(r) == ParseDocs(Split(r), 1, <<>>)

InitParse ==
  /\ mode = "parse"
  /\ variant = None
  /\ \E n \in 0..MaxLines : response \in Responses(n)
  /\ result = Returned(<<>>)
  /\ again = <<>>
  /\ pc = "start"
  /\ NoRun

Parse ==
  /\ mode = "parse"
  /\ pc = "start"
  /\ result' = _parse_k8s_manifests(response)
  /\ pc' = "parsed"
  /\ UNCHANGED <<mode, variant, response, again, runVars>>

NextParse == Parse

SpecParse == InitParse /\ [][NextParse]_vars

\* The same function on responses over DocLines.
InitParseDocs ==
  /\ mode = "parse"
  /\ variant = None
  /\ \E n \in 0..MaxLines : response \in [1..n -> DocLines]
  /\ result = Returned(<<>>)
  /\ again = <<>>
  /\ pc = "start"
  /\ NoRun

SpecParseDocs == InitParseDocs /\ [][NextParse]_vars

----------------------------------------------------------------------------
\* The script run once: the __main__ block, the constructor and
\* run_full_pipeline.

\* A file path: its directory and its name in it, the name as stem and
\* extension.
Path(dir, name) == [dir |-> dir, name |-> name]

\* The fixed artifact paths, by the generation call each is written from.
ArtifactPath(call) ==
  CASE call = "stage1"     -> Path("terraform/Stage1", <<"main", ".tf">>)
    [] call = "stage2"     -> Path("terraform/Stage2", <<"main", ".tf">>)
    [] call = "variables"  -> Path("terraform/Stage1", <<"variables", ".tf">>)
    [] call = "workflow"   -> Path(".github/workflows", <<"deploy", ".yml">>)
    [] call = "dockerfile" -> Path(".", <<"Dockerfile", "">>)
    [] call = "setup"      -> Path("scripts", <<"setup", ".sh">>)
    [] call = "deploy"     -> Path("scripts", <<"deploy", ".sh">>)

\* file_path = f"{name}.yaml", in the working directory.
ManifestPath(name) == Path(".", <<name, ".yaml">>)

\* The generation calls of a run in the order the code issues them; "test"
\* is the call of test_gemini_connection.
CallOrder ==
  <<"test", "stage1", "stage2", "variables", "manifests", "workflow",
    "dockerfile", "setup", "deploy">>

\* The step of run_full_pipeline a call belongs to (0: before the pipeline).
StepOf(call) ==
  CASE call = "test" -> 0
    [] call \in {"stage1", "stage2"} -> 1
    [] call = "variables"  -> 2
    [] call = "manifests"  -> 3
    [] call = "workflow"   -> 4
    [] call = "dockerfile" -> 5
    [] call \in {"setup", "deploy"} -> 6

\* The directories _create_directories makes.
directories ==
  {"terraform", "k8s", "scripts", ".github/workflows", "logs", "sample-node-project"}

\* The directories a working directory may hold before the run, next to the
\* working directory itself.
OptionalDirs == {"logs", "terraform/Stage1", "terraform/Stage2"}

\* A file content: the text and the call whose response it was made from
\* ("earlier": the file is older than the run).
Content(call, text) == [from |-> call, text |-> text]

\* The files an earlier run left in the directories that exist.
LeftOver(ds) ==
  LET ps == {q \in {ArtifactPath(c) : c \in {"stage1", "stage2", "variables",
                      "workflow", "dockerfile", "setup", "deploy"}}
                   \cup {ManifestPath(k) : k \in {"deployment", "service", "ingress"}} :
               q.dir \in ds}
  IN  [q \in ps |-> Content("earlier", <<"a">>)]

\* The responses a fence-extracted generation call may return, and those of
\* the manifests call.
TextResponses == {<<"a", "F", "tag", "nl", "a", "nl", "F">>, <<"nl", "a", "a">>}

ManifestResponses ==
  {<<"kD", "sep", "kS", "sep", "kI">>, <<"kS", "sep", "kC", "sep", "ks">>, <<"li">>}

\* The environment variables _init_gemini_client reads.
KeyVariables == {"GEMINI_API_KEY", "GOOGLE_API_KEY"}

\* Faulty variant: the client is configured without the check of the key.
api_key_unchecked == TRUE

\* api_key = os.getenv('GEMINI_API_KEY') or os.getenv('GOOGLE_API_KEY'),
\* as the truth value "if not api_key" tests.
api_key == "GEMINI_API_KEY" \in apiKey \/ "GOOGLE_API_KEY" \in apiKey

InitRun ==
  /\ mode = "run" /\ pc = "init"
  /\ variant = None /\ response = <<>> /\ result = <<>> /\ again = <<>>
  /\ apiKey \in SUBSET KeyVariables
  /\ \E ds \in SUBSET OptionalDirs, rerun \in BOOLEAN :
       /\ dirs = {"."} \cup ds \cup (IF rerun THEN directories ELSE {})
       /\ files = (IF rerun THEN LeftOver(dirs) ELSE <<>>)
  /\ before = files
  /\ calls = <<>> /\ responses = <<>> /\ failed = None /\ pending = <<>>
  /\ log = <<>>
  /\ exit = "running"

\* An exception no handler of the script stops: the messages logged on its
\* way up, the traceback, exit status 1.  The local variables are gone.
Crash(messages) ==
  /\ log' = log \o messages
  /\ exit' = "1"
  /\ pc' = "done"
  /\ pending' = <<>>

\* __init__, lines 17-35: setup_logging opens logs/eks_automation.log,
\* _init_gemini_client needs an API key, _create_directories makes the
\* directories.
Construct ==
  /\ mode = "run" /\ pc = "init"
  /\ IF "logs" \notin dirs
       THEN Crash(<<>>) /\ UNCHANGED dirs
     ELSE IF ~api_key
       THEN Crash(<<"Failed to initialize Gemini client">>) /\ UNCHANGED dirs
     ELSE /\ dirs' = dirs \cup directories
          /\ pc' = "test"
          /\ UNCHANGED <<log, exit, pending>>
  /\ UNCHANGED <<mode, textVars, apiKey, files, before, calls, responses, failed>>

\* _call_gemini_api, lines 109-122, failing: the error is logged and raised
\* again.
CallFails(call) ==
  /\ calls' = Append(calls, call)
  /\ failed' = call
  /\ UNCHANGED responses

\* test_gemini_connection and the __main__ block, lines 616-637: a failed
\* test call is logged, False is returned, a line is printed and the script
\* ends.
test_gemini_connection ==
  /\ mode = "run" /\ pc = "test"
  /\ \/ /\ calls' = Append(calls, "test")
        /\ pc' = "stage1"
        /\ UNCHANGED <<responses, failed, log, exit>>
     \/ /\ CallFails("test")
        /\ log' = log \o <<"Gemini API call failed", "Gemini API test failed">>
        /\ exit' = "0"
        /\ pc' = "done"
  /\ UNCHANGED <<mode, textVars, apiKey, dirs, files, before, pending>>

\* A wrong orchestration: the first Terraform file is written only after the
\* second stage was generated.
GenerateDeferred(call, r, artifacts, next) ==
  /\ calls' = Append(calls, call)
  /\ responses' = [c \in DOMAIN responses \cup {call} |->
                     IF c = call THEN r ELSE responses[c]]
  /\ pending' = pending \o artifacts
  /\ pc' = (IF call = "stage1" THEN "stage2" ELSE next)
  /\ UNCHANGED <<failed, log, exit>>

\* A generation call inside a generate_ method: it returns and the artifacts
\* made from its response are held, or it fails and the error is logged by
\* _call_gemini_api, by the method and by run_full_pipeline on its way up.
Generate(call, r, artifacts, next) ==
  /\ calls' = Append(calls, call)
  /\ responses' = [c \in DOMAIN responses \cup {call} |->
                     IF c = call THEN r ELSE responses[c]]
  /\ pending' = pending \o artifacts
  /\ pc' = next
  /\ UNCHANGED <<failed, log, exit>>

\* A wrong failure path: the first failure of a run is logged and the call is
\* issued again.
GenerateFailsRetried(call, message) ==
  IF failed = None
    THEN /\ CallFails(call)
         /\ log' = log \o <<"Gemini API call failed">>
         /\ UNCHANGED <<exit, pc, pending>>
    ELSE /\ CallFails(call)
         /\ Crash(<<"Gemini API call failed", message, "Pipeline failed">>)

GenerateFails(call, message) ==
  /\ CallFails(call)
  /\ Crash(<<"Gemini API call failed", message, "Pipeline failed">>)

\* One artifact held for a path.
Artifact(path, call, text) == [path |-> path, content |-> Content(call, text)]

\* Faulty variant: the file of the first artifact held is written with the
\* content generated last.
WriteFirstWithLast(message, next) ==
  LET a == Head(pending)
  IN  IF a.path.dir \in dirs
        THEN /\ files' = [q \in DOMAIN files \cup {a.path} |->
                            IF q = a.path THEN pending[Len(pending)].content
                                          ELSE files[q]]
             /\ pending' = Tail(pending)
             /\ pc' = next
             /\ UNCHANGED <<log, exit>>
        ELSE /\ Crash(<<message, "Pipeline failed">>)
             /\ UNCHANGED files

\* with open(path, 'w') as f: f.write(content), for the first artifact held:
\* the file is written, or its directory does not exist and open raises.
WriteFirst(message, next) ==
  LET a == Head(pending)
  IN  IF a.path.dir \in dirs
        THEN /\ files' = [q \in DOMAIN files \cup {a.path} |->
                            IF q = a.path THEN a.content ELSE files[q]]
             /\ pending' = Tail(pending)
             /\ pc' = next
             /\ UNCHANGED <<log, exit>>
        ELSE /\ Crash(<<message, "Pipeline failed">>)
             /\ UNCHANGED files

\* generate_complete_terraform_main, lines 124-213.
generate_complete_terraform_main ==
  /\ mode = "run"
  /\ LET message == "Failed to generate complete Terraform main.tf"
     IN  \/ /\ pc = "stage1"
            /\ \/ \E r \in TextResponses :
                    Generate("stage1", r,
                      <<Artifact(ArtifactPath("stage1"), "stage1", _extract_terraform_code(r))>>,
                      "stage1_write")
               \/ GenerateFails("stage1", message)
            /\ UNCHANGED files
         \/ /\ pc = "stage1_write"
            /\ WriteFirst(message, "stage2")
            /\ UNCHANGED <<calls, responses, failed>>
         \/ /\ pc = "stage2"
            /\ \/ \E r \in TextResponses :
                    Generate("stage2", r,
                      <<Artifact(ArtifactPath("stage2"), "stage2", _extract_terraform_code(r))>>,
                      "stage2_write")
               \/ GenerateFails("stage2", message)
            /\ UNCHANGED files
         \/ /\ pc = "stage2_write"
            /\ WriteFirst(message, "variables")
            /\ UNCHANGED <<calls, responses, failed>>
  /\ UNCHANGED <<mode, textVars, apiKey, dirs, before>>

\* generate_terraform_variables, lines 232-264.
generate_terraform_variables ==
  /\ mode = "run"
  /\ LET message == "Failed to generate Terraform variables.tf"
     IN  \/ /\ pc = "variables"
            /\ \/ \E r \in TextResponses :
                    Generate("variables", r,
                      <<Artifact(ArtifactPath("variables"), "variables", _extract_terraform_code(r))>>,
                      "variables_write")
               \/ GenerateFails("variables", message)
            /\ UNCHANGED files
         \/ /\ pc = "variables_write"
            /\ WriteFirst(message, "manifests")
            /\ UNCHANGED <<calls, responses, failed>>
  /\ UNCHANGED <<mode, textVars, apiKey, dirs, before>>

\* manifests.items(): one artifact per entry, in insertion order.
ManifestArtifacts(manifests) ==
  [i \in 1..Len(manifests) |->
     Artifact(ManifestPath(manifests[i].key), "manifests", manifests[i].val)]

\* generate_kubernetes_manifests, lines 266-340.
generate_kubernetes_manifests ==
  /\ mode = "run"
  /\ LET message == "Failed to generate Kubernetes manifests"
     IN  \/ /\ pc = "manifests"
            /\ \/ \E r \in ManifestResponses :
                    LET held == ManifestArtifacts(_parse_k8s_manifests(r).manifests)
                    IN  Generate("manifests", r, held,
                          IF held = <<>> THEN "workflow" ELSE "manifests_write")
               \/ GenerateFails("manifests", message)
            /\ UNCHANGED files
         \/ /\ pc = "manifests_write"
            /\ WriteFirst(message,
                 IF Len(pending) > 1 THEN "manifests_write" ELSE "workflow")
            /\ UNCHANGED <<calls, responses, failed>>
  /\ UNCHANGED <<mode, textVars, apiKey, dirs, before>>

\* generate_github_actions_workflow, lines 371-409.
generate_github_actions_workflow ==
  /\ mode = "run"
  /\ LET message == "Failed to generate GitHub Actions workflow"
     IN  \/ /\ pc = "workflow"
            /\ \/ \E r \in TextResponses :
                    Generate("workflow", r,
                      <<Artifact(ArtifactPath("workflow"), "workflow", _extract_yaml_content(r))>>,
                      "workflow_write")
               \/ GenerateFails("workflow", message)
            /\ UNCHANGED files
         \/ /\ pc = "workflow_write"
            /\ WriteFirst(message, "dockerfile")
            /\ UNCHANGED <<calls, responses, failed>>
  /\ UNCHANGED <<mode, textVars, apiKey, dirs, before>>

\* generate_dockerfile, lines 426-459.
generate_dockerfile ==
  /\ mode = "run"
  /\ LET message == "Failed to generate Dockerfile"
     IN  \/ /\ pc = "dockerfile"
            /\ \/ \E r \in TextResponses :
                    Generate("dockerfile", r,
                      <<Artifact(ArtifactPath("dockerfile"), "dockerfile", _extract_dockerfile_content(r))>>,
                      "dockerfile_write")
               \/ GenerateFails("dockerfile", message)
            /\ UNCHANGED files
         \/ /\ pc = "dockerfile_write"
            /\ WriteFirst(message, "setup")
            /\ UNCHANGED <<calls, responses, failed>>
  /\ UNCHANGED <<mode, textVars, apiKey, dirs, before>>

\* generate_deployment_scripts, lines 476-529: both scripts are generated
\* into the dict scripts, then both are written.
generate_deployment_scripts ==
  /\ mode = "run"
  /\ LET message == "Failed to generate deployment scripts"
     IN  \/ /\ pc = "setup"
            /\ \/ \E r \in TextResponses :
                    Generate("setup", r,
                      <<Artifact(ArtifactPath("setup"), "setup", _extract_script_content(r))>>,
                      "deploy")
               \/ GenerateFails("setup", message)
            /\ UNCHANGED files
         \/ /\ pc = "deploy"
            /\ \/ \E r \in TextResponses :
                    Generate("deploy", r,
                      <<Artifact(ArtifactPath("deploy"), "deploy", _extract_script_content(r))>>,
                      "scripts_write")
               \/ GenerateFails("deploy", message)
            /\ UNCHANGED files
         \/ /\ pc = "scripts_write"
            /\ WriteFirst(message,
                 IF Len(pending) > 1 THEN "scripts_write" ELSE "completed")
            /\ UNCHANGED <<calls, responses, failed>>
  /\ UNCHANGED <<mode, textVars, apiKey, dirs, before>>

\* The end of run_full_pipeline, lines 576-577, and of the script.
Complete ==
  /\ mode = "run" /\ pc = "completed"
  /\ pc' = "done"
  /\ exit' = "0"
  /\ UNCHANGED <<mode, textVars, apiKey, dirs, files, before, calls, responses, failed,
                 pending, log>>

\* run_full_pipeline, lines 546-581: the six steps in their order.
run_full_pipeline ==
  \/ generate_complete_terraform_main
  \/ generate_terraform_variables
  \/ generate_kubernetes_manifests
  \/ generate_github_actions_workflow
  \/ generate_dockerfile
  \/ generate_deployment_scripts
  \/ Complete

Next == Construct \/ test_gemini_connection \/ run_full_pipeline

Spec == InitRun /\ [][Next]_vars

\* The script is one thread that runs until it returns or an exception ends
\* it: a step that can be taken is taken.
FairSpec == Spec /\ WF_vars(Next)

\* Both families of pure functions in one specification.
InitText == InitExtract \/ InitParse \/ InitParseDocs

NextText == NextExtract \/ NextParse

SpecText == InitText /\ [][NextText]_vars

----------------------------------------------------------------------------
\* Properties of the fence extractors (SpecExtract).

\* A language-tagged fence of r: ``` tag newline at i, newline ``` at j, and
\* no ``` in the body between them.
TaggedFence(r, i, j) ==
  /\ i + 2 <= Len(r) /\ r[i] = "F" /\ r[i+1] = "tag" /\ r[i+2] = "nl"
  /\ j >= i + 3 /\ j + 1 <= Len(r) /\ r[j] = "nl" /\ r[j+1] = "F"
  /\ \A k \in (i + 3)..(j - 1) : r[k] # "F"

FenceBody(r, i, j) == SubSeq(r, i + 3, j - 1)

\* The number of fence markers in a text.
NumFences(r) == Cardinality({k \in 1..Len(r) : r[k] = "F"})

\* C1 as stated: for every response containing a language-tagged fence,
\* whatever surrounds it, the extractor returns the body of that fence,
\* stripped.
C1_AnyTaggedFence ==
  (mode = "extract" /\ pc # "start") =>
    \A i, j \in 1..Len(response) :
      TaggedFence(response, i, j) => result = Strip(FenceBody(response, i, j))

\* C1 amended: when the first ``` of the response opens a language-tagged
\* fence whose body holds no ```, the extractor returns the body of that
\* fence, stripped, whatever text without ``` precedes it and whatever text
\* follows it.
C1_FirstTaggedFence ==
  (mode = "extract" /\ pc # "start") =>
    \A i, j \in 1..Len(response) :
      (TaggedFence(response, i, j) /\ \A k \in 1..(i - 1) : response[k] # "F")
        => result = Strip(FenceBody(response, i, j))

\* A tagged fence after some prose, with a body that is not white space only,
\* has been extracted.
C1_Witness ==
  /\ mode = "extract" /\ pc = "extracted"
  /\ \E i, j \in 1..Len(response) :
       /\ TaggedFence(response, i, j)
       /\ i > 1
       /\ \A k \in 1..(i - 1) : response[k] # "F"
       /\ Strip(FenceBody(response, i, j)) # <<>>
       /\ result = Strip(FenceBody(response, i, j))

\* C2 as stated: for every response, extracting from the extractor's own
\* output returns that output unchanged.
C2_Idempotent ==
  (mode = "extract" /\ pc = "reextracted") => again = result

\* C2 amended: extract(extract(r)) = extract(r) for every r with the yaml,
\* dockerfile and script extractors; with the terraform extractor exactly
\* when extract(r) holds fewer than two ``` (otherwise its inline pattern
\* strips the output again).
C2_IdempotentUnlessInline ==
  (mode = "extract" /\ pc = "reextracted") =>
    (again = result <=> (variant # "terraform" \/ NumFences(result) < 2))

\* A second extraction left alone an output that was cut out of a fence and
\* still holds a fence marker.
C2_Witness ==
  /\ mode = "extract" /\ pc = "reextracted"
  /\ result # Strip(response)
  /\ NumFences(result) > 0
  /\ again = result

\* C3: a response without any ``` (the empty one too) is returned whole,
\* with its leading and trailing white space removed and nothing else changed.
C3_NoFenceWholeInput ==
  (mode = "extract" /\ pc # "start" /\ NumFences(response) = 0)
    => result = Strip(response)

\* A response without fence, with white space at both ends and text in
\* between, has been extracted.
C3_Witness ==
  /\ mode = "extract" /\ pc = "extracted"
  /\ NumFences(response) = 0
  /\ Len(response) >= 3
  /\ response[1] \in Whitespace /\ response[Len(response)] \in Whitespace
  /\ result # <<>> /\ result # response

----------------------------------------------------------------------------
\* Properties of _parse_k8s_manifests (SpecParse).

\* The fragments of a response, each named by its first line: a fragment
\* starts at the first line and after every separator, and runs to the line
\* before the next separator or to the last line (an empty fragment ends
\* before it starts).
FragmentEnd(r, a) ==
  LET seps == {i \in a..Len(r) : r[i] = "sep"}
  IN  IF seps = {} THEN Len(r) ELSE Min(seps) - 1

Fragments(r) == {a \in 1..(Len(r) + 1) : a = 1 \/ r[a - 1] = "sep"}

\* The trimmed text of a fragment.
FragmentText(r, a) == StripLines(SubSeq(r, a, FragmentEnd(r, a)))

\* The lines that declare a kind by name.
KindLines == {"kD", "kS", "kI", "ks"}

\* A fragment declares a kind: it is a YAML mapping with one kind entry,
\* whose value is a name.
DeclaresKind(r, a) ==
  /\ \A i \in a..FragmentEnd(r, a) : r[i] \in (MapLines \ {"kN"}) \cup {"bl"}
  /\ Cardinality({i \in a..FragmentEnd(r, a) : r[i] \in KindLines}) = 1

DeclaredLine(r, a) == r[CHOOSE i \in a..FragmentEnd(r, a) : r[i] \in KindLines]

\* The kind name a line declares, as written and lower-cased.
KindName(line) ==
  CASE line = "kD" -> "Deployment" [] line = "kS" -> "Service"
    [] line = "kI" -> "Ingress"    [] line = "ks" -> "service"

LowerName(line) ==
  CASE line = "kD" -> "deployment" [] line = "kS" -> "service"
    [] line = "kI" -> "ingress"    [] line = "ks" -> "service"

\* The returned mapping has one entry per fragment of r, keyed by the
\* fragment's lower-cased kind and holding the fragment's trimmed text.
OneEntryPerFragment(r, d) ==
  /\ Len(d) = Cardinality(Fragments(r))
  /\ Keys(d) = {LowerName(DeclaredLine(r, f)) : f \in Fragments(r)}
  /\ \A f \in Fragments(r) :
       Get(d, LowerName(DeclaredLine(r, f))) = FragmentText(r, f)

\* C4 as stated: n fragments joined by '---', each declaring a kind, all
\* kinds distinct: the mapping has exactly n entries, keyed by the
\* lower-cased kind names, each holding the trimmed text of its fragment.
C4_DistinctKinds ==
  (mode = "parse" /\ pc = "parsed"
     /\ (\A f \in Fragments(response) : DeclaresKind(response, f))
     /\ \A g, h \in Fragments(response) :
          g # h => KindName(DeclaredLine(response, g))
                     # KindName(DeclaredLine(response, h)))
    => (result.raised = None /\ OneEntryPerFragment(response, result.manifests))

\* C4 amended: the same, for kinds that are distinct after lower-casing
\* (Service and service are two kinds and one key).
C4_DistinctLowerKinds ==
  (mode = "parse" /\ pc = "parsed"
     /\ (\A f \in Fragments(response) : DeclaresKind(response, f))
     /\ \A g, h \in Fragments(response) :
          g # h => LowerName(DeclaredLine(response, g))
                     # LowerName(DeclaredLine(response, h)))
    => (result.raised = None /\ OneEntryPerFragment(response, result.manifests))

\* The spec's case: a Deployment, a Service and an Ingress parsed into three
\* entries.
C4_Witness ==
  /\ mode = "parse" /\ pc = "parsed"
  /\ Cardinality(Fragments(response)) = 3
  /\ \A f \in Fragments(response) : DeclaresKind(response, f)
  /\ Keys(result.manifests) = {"deployment", "service", "ingress"}
  /\ Len(result.manifests) = 3

\* The key a fragment ends up under (None: it is empty or not stored).
FragmentKey(r, f) ==
  IF FragmentText(r, f) = <<>> THEN None ELSE ResolvedKey(FragmentText(r, f))

\* C5: last write wins.  When several fragments resolve to one key (one kind
\* after lower-casing, or one fallback marker), the mapping holds a single
\* entry for the key, with the text of the last of these fragments.
C5_LastWriteWins ==
  (mode = "parse" /\ pc = "parsed") =>
    \A f \in Fragments(response) :
      LET k == FragmentKey(response, f)
      IN  (k # None /\ \A g \in Fragments(response) :
                         g > f => FragmentKey(response, g) # k)
            => /\ Cardinality({i \in 1..Len(result.manifests) :
                                 result.manifests[i].key = k}) = 1
               /\ Get(result.manifests, k) = FragmentText(response, f)

\* Two fragments with different texts went to one key, the earlier by its
\* parsed kind and the later by a fallback marker.
C5_Witness ==
  /\ mode = "parse" /\ pc = "parsed"
  /\ \E f, g \in Fragments(response) :
       /\ f < g
       /\ FragmentKey(response, f) # None
       /\ FragmentKey(response, f) = FragmentKey(response, g)
       /\ FragmentText(response, f) # FragmentText(response, g)
       /\ TryBody(FragmentText(response, f)).raised = None
       /\ TryBody(FragmentText(response, g)).raised # None
       /\ Get(result.manifests, FragmentKey(response, g))
            = FragmentText(response, g)

\* No kind can be parsed from the fragment and no marker is in it.
Unrecognised(r, f) ==
  /\ FragmentText(r, f) # <<>>
  /\ TryBody(FragmentText(r, f)).key = None
  /\ \A mk \in {"Deployment", "Service", "Ingress"} :
       ~Contains(FragmentText(r, f), mk)

\* The response without fragment a and without one separator next to it.
Without(r, a) ==
  IF FragmentEnd(r, a) < Len(r)
    THEN SubSeq(r, 1, a - 1) \o SubSeq(r, FragmentEnd(r, a) + 2, Len(r))
    ELSE SubSeq(r, 1, a - 2)

\* C6: a non-empty fragment with no parsable kind and none of the markers
\* Deployment, Service, Ingress contributes no entry: its text is the value
\* of no key, and the mapping is the one the response gives without it.
C6_UnrecognisedDropped ==
  (mode = "parse" /\ pc = "parsed") =>
    \A f \in Fragments(response) :
      Unrecognised(response, f) =>
        /\ \A i \in 1..Len(result.manifests) :
             result.manifests[i].val # FragmentText(response, f)
        /\ result = _parse_k8s_manifests(Without(response, f))

\* An unrecognised fragment stood between two recognised ones, and the
\* mapping has the two entries.
C6_Witness ==
  /\ mode = "parse" /\ pc = "parsed"
  /\ Cardinality(Fragments(response)) = 3
  /\ \E f \in Fragments(response) :
       /\ Unrecognised(response, f)
       /\ f > 1 /\ FragmentEnd(response, f) < Len(response)
  /\ Len(result.manifests) = 2

----------------------------------------------------------------------------
\* Totality (SpecText).

\* A text is a piece of another: some of its consecutive tokens.
PieceOf(t, r) == \E a \in 1..(Len(r) + 1), b \in 0..Len(r) : t = SubSeq(r, a, b)

\* C7: the fence extractors and _parse_k8s_manifests return a value for
\* every input and never raise: the empty and the white-space-only text,
\* unbalanced fences, text that is no YAML, YAML that is a scalar or a list
\* at the top level, a kind that is no string.  The parser's value is a
\* mapping with one entry per key, each holding the trimmed text of a
\* fragment of the response; an extractor's value is a piece of the
\* response with no white space around it.
C7_Total ==
  /\ (mode = "parse" /\ pc = "parsed") =>
       /\ result.raised = None
       /\ Cardinality(Keys(result.manifests)) = Len(result.manifests)
       /\ \A i \in 1..Len(result.manifests) :
            \E f \in Fragments(response) :
              /\ FragmentText(response, f) # <<>>
              /\ result.manifests[i].val = FragmentText(response, f)
  /\ (mode = "extract" /\ pc # "start") =>
       PieceOf(result, response) /\ Strip(result) = result
  /\ (mode = "extract" /\ pc = "reextracted") =>
       PieceOf(again, result) /\ Strip(again) = again

\* A response was parsed with a fragment that is a scalar, a fragment that
\* is a list and a fragment whose kind is a number: the try block raised
\* TypeError for the first two and AttributeError for the third.
C7_Witness ==
  /\ mode = "parse" /\ pc = "parsed"
  /\ \E f, g, h \in Fragments(response) :
       /\ safe_load(FragmentText(response, f)).type = "str"
       /\ TryBody(FragmentText(response, f)).raised = "TypeError"
       /\ safe_load(FragmentText(response, g)).type = "list"
       /\ TryBody(FragmentText(response, g)).raised = "TypeError"
       /\ safe_load(FragmentText(response, h)).type = "dict"
       /\ TryBody(FragmentText(response, h)).raised = "AttributeError"
  /\ result.raised = None

----------------------------------------------------------------------------
\* Claims about a run of the script.

Last(s) == s[Len(s)]

\* The position of a call in the order of a run.
OrderOf(call) == CHOOSE i \in DOMAIN CallOrder : CallOrder[i] = call

ManifestNames == {"deployment", "service", "ingress", "configmap"}

\* The files a call's response is written to.
PathsOf(call) ==
  IF call = "manifests" THEN {ManifestPath(k) : k \in ManifestNames}
  ELSE IF call = "test" THEN {}
  ELSE {ArtifactPath(call)}

\* The file at a path is what it was before the run.
Untouched(q) ==
  IF q \in DOMAIN before
    THEN q \in DOMAIN files /\ files[q] = before[q]
    ELSE q \notin DOMAIN files

Occurrences(s, x) == Cardinality({i \in DOMAIN s : s[i] = x})

Aborted == failed # None /\ Occurrences(calls, failed) = 1 /\ Last(calls) = failed

\* C8 as stated: when a generation call fails, it is not retried, no later
\* call is issued, and every artifact file of the failed call's step and of
\* the later steps is what it was before the run.
C8_StepUntouched ==
  failed # None =>
    /\ Aborted
    /\ \A c \in DOMAIN CallOrder :
         StepOf(CallOrder[c]) >= StepOf(failed) =>
           \A q \in PathsOf(CallOrder[c]) : Untouched(q)

\* C8 amended: when a generation call fails, it is not retried, no later
\* call is issued, and every file made from the failed call or from a later
\* call is what it was before the run; a file of the same step made from an
\* earlier call may have been written.
C8_CallUntouched ==
  failed # None =>
    /\ Aborted
    /\ \A c \in DOMAIN CallOrder :
         c >= OrderOf(failed) =>
           \A q \in PathsOf(CallOrder[c]) : Untouched(q)

\* The second call of the Terraform step failed after the first file of the
\* step was written.
C8_Witness ==
  /\ failed = "stage2" /\ pc = "done" /\ exit = "1"
  /\ ArtifactPath("stage1") \in DOMAIN files
  /\ files[ArtifactPath("stage1")].from = "stage1"
  /\ ArtifactPath("stage1") \in DOMAIN before

\* Every artifact of the run is in its file.
AllWritten ==
  /\ pending = <<>>
  /\ \A c \in {"stage1", "stage2", "variables", "workflow", "dockerfile",
               "setup", "deploy"} :
       /\ ArtifactPath(c) \in DOMAIN files
       /\ files[ArtifactPath(c)].from = c

\* C9 as stated: once the script has ended, a failed generation call (the
\* test call included) means a logged message and a non-zero exit status,
\* and exit status 0 means that no call failed and every artifact was
\* written.
C9_FailureIsNonZero ==
  pc = "done" =>
    /\ failed # None => (log # <<>> /\ exit = "1")
    /\ exit = "0" => (failed = None /\ Len(calls) = Len(CallOrder) /\ AllWritten)

\* C10 as stated: the artifacts held at one time all come from one
\* generation call, so that no call is issued while an earlier call's
\* artifact is unwritten.
PendingFrom == {pending[i].content.from : i \in DOMAIN pending}

C10_OnePending == Cardinality(PendingFrom) <= 1

\* C10 amended: every artifact held comes from the most recent generation
\* call, except that the setup script is still held while the deploy script
\* is generated and held.
C10_OnePendingButScripts ==
  \A c \in PendingFrom :
    \/ c = Last(calls)
    \/ c = "setup" /\ Last(calls) = "deploy"

\* Both scripts are held, neither written.
C10_Witness ==
  /\ PendingFrom = {"setup", "deploy"}
  /\ pc = "scripts_write"

\* The paths of the three per-kind manifest files.
FixedManifestPaths == {ManifestPath(k) : k \in {"deployment", "service", "ingress"}}

\* The paths generate_kubernetes_manifests has written a manifest to.
ManifestTargets == {q \in DOMAIN files : files[q].from = "manifests"}

\* C11 as stated: whatever the manifests response, generate_kubernetes_manifests
\* writes only deployment.yaml, service.yaml and ingress.yaml.
C11_FixedPaths == ManifestTargets \subseteq FixedManifestPaths

\* C12: in a run with neither GEMINI_API_KEY nor GOOGLE_API_KEY set, no
\* generation call is ever issued, no artifact is held or written, and the
\* run is either not yet constructed or has ended with an error.
C12_NoKeyNoCall ==
  (mode = "run" /\ apiKey = {}) =>
    /\ calls = <<>> /\ pending = <<>> /\ files = before
    /\ pc \in {"init", "done"}
    /\ pc = "done" => exit = "1"

\* Construction has failed on the missing key, in a directory where files
\* of an earlier run could have been overwritten.
C12_Witness ==
  /\ mode = "run" /\ apiKey = {} /\ pc = "done" /\ exit = "1"
  /\ log = <<"Failed to initialize Gemini client">>
  /\ calls = <<>> /\ files # <<>>

\* What the file at path q holds when it is made from response r of a call.
DerivedText(call, q, r) ==
  CASE call \in {"stage1", "stage2", "variables"} -> _extract_terraform_code(r)
    [] call = "workflow"   -> _extract_yaml_content(r)
    [] call = "dockerfile" -> _extract_dockerfile_content(r)
    [] call \in {"setup", "deploy"} -> _extract_script_content(r)
    [] call = "manifests"  -> Get(_parse_k8s_manifests(r).manifests, q.name[1])

\* C13: every artifact file is either as it was before the run, or holds what
\* is extracted from the response of exactly one generation call, the call
\* of the file's own prompt.
C13_OwnResponse ==
  \A q \in DOMAIN files :
    \/ q \in DOMAIN before /\ files[q] = before[q]
    \/ /\ files[q].from \in DOMAIN responses
       /\ q \in PathsOf(files[q].from)
       /\ files[q].text = DerivedText(files[q].from, q, responses[files[q].from])

\* A completed run over the files of an earlier run, in which the two
\* scripts were extracted from different responses to different texts.
C13_Witness ==
  /\ pc = "done" /\ exit = "0" /\ before # <<>>
  /\ \A c \in {"stage1", "stage2", "variables", "workflow", "dockerfile",
               "setup", "deploy"} : files[ArtifactPath(c)].from = c
  /\ files[ArtifactPath("setup")].text # files[ArtifactPath("deploy")].text
  /\ ManifestPath("deployment") \in DOMAIN files
  /\ files[ManifestPath("deployment")].from = "manifests"

----------------------------------------------------------------------------
\* The marker fallback (SpecParse).

\* The key the marker search gives a text (None: no marker is in it).
MarkerKey(text) ==
  IF Contains(text, "Deployment") THEN "deployment"
  ELSE IF Contains(text, "Service") THEN "service"
  ELSE IF Contains(text, "Ingress") THEN "ingress"
  ELSE None

\* The fragment's text is the value of the key in the returned mapping.
StoredUnder(r, f, k) ==
  /\ k \in Keys(result.manifests)
  /\ Get(result.manifests, k) = FragmentText(r, f)

\* No later fragment of the response goes to the key.
LastFor(r, f, k) == \A g \in Fragments(r) : g > f => FragmentKey(r, g) # k

\* The fragment's text is the value of no key.
Dropped(r, f) ==
  \A i \in 1..Len(result.manifests) : result.manifests[i].val # FragmentText(r, f)

\* C14 as stated: every non-empty fragment from which the structured parse
\* recovers no kind goes to the key of the first marker in it (unless a
\* later fragment replaces it) and is dropped only when it has no marker.
C14_NoKindFallback ==
  (mode = "parse" /\ pc = "parsed") =>
    \A f \in Fragments(response) :
      LET text == FragmentText(response, f)
      IN  (text # <<>> /\ TryBody(text).key = None) =>
            IF MarkerKey(text) = None THEN Dropped(response, f)
            ELSE LastFor(response, f, MarkerKey(text))
                   => StoredUnder(response, f, MarkerKey(text))

\* C14 amended: the marker search is the handler of an exception in the
\* try block.  A non-empty fragment for which the try block raises (text
\* that is no YAML; a kind that is no string; a list holding the item kind
\* or a scalar containing kind, which yaml_doc['kind'] cannot index) goes to
\* the key of the first marker in it and is dropped when it has none; a
\* fragment that is loaded with nothing raised and has no kind (a mapping
\* without the key, a list without the item) is dropped whatever markers it
\* contains.
C14_RaisedFallback ==
  (mode = "parse" /\ pc = "parsed") =>
    \A f \in Fragments(response) :
      LET text == FragmentText(response, f)
      IN  (text # <<>> /\ TryBody(text).key = None) =>
            IF TryBody(text).raised = None \/ MarkerKey(text) = None
              THEN Dropped(response, f)
            ELSE LastFor(response, f, MarkerKey(text))
                   => StoredUnder(response, f, MarkerKey(text))

\* One fragment was loaded as a mapping without kind, contains a marker and
\* is dropped; another was loaded as a list holding the items kind and
\* Deployment, raised TypeError and is stored under deployment.
C14_Witness ==
  /\ mode = "parse" /\ pc = "parsed"
  /\ \E f, g \in Fragments(response) :
       /\ FragmentText(response, f) # <<>>
       /\ safe_load(FragmentText(response, f)).type = "dict"
       /\ TryBody(FragmentText(response, f)) = [raised |-> None, key |-> None]
       /\ MarkerKey(FragmentText(response, f)) # None
       /\ Dropped(response, f)
       /\ safe_load(FragmentText(response, g)).type = "list"
       /\ TryBody(FragmentText(response, g)).raised = "TypeError"
       /\ MarkerKey(FragmentText(response, g)) = "deployment"
       /\ StoredUnder(response, g, "deployment")

----------------------------------------------------------------------------
\* A run from an empty working directory (FairSpec).

\* The start of a run in an empty working directory with a key set.
EmptyStart ==
  /\ mode = "run" /\ pc = "init"
  /\ dirs = {"."} /\ files = <<>>
  /\ api_key

\* The run has ended well with every artifact in its file.
Completed == pc = "done" /\ exit = "0" /\ AllWritten

\* C15 as stated: a run that starts in an empty working directory with the
\* credential set, and in which no generation call fails, eventually
\* completes with every artifact written.
C15_EmptyDirCompletes == EmptyStart ~> (Completed \/ failed # None)

====
